---- MODULE Spec2Model ----
(***************************************************************************)
(* Model of the two WS2812B animation sketches of rocket-led-arduino:      *)
(*   "part_000" : src/unnamed/part_000 (PATTERN_BLOCK pattern, 10 phases)  *)
(*   "ino"      : src/rocket-led-arduino/rocket-led-arduino.ino            *)
(*                (hard-wired "WWWBBB", 9 phases)                          *)
(* loop() is modelled statement group by statement group; pc is the        *)
(* position inside setup()/loop().                                         *)
(***************************************************************************)
EXTENDS Integers, Sequences, FiniteSets, TLC

\* ---------------------------------------------------------------- bounds
\* number of loop() iterations explored
MaxIter == 11

\* the long stall is explored after the first MaxStallIter iterations only
MaxStallIter == 1

\* analogRead(BRIGHT_POT) samples explored (a subset of 0..1023)
BrightSamples == {0, 512}

\* analogRead(SPEED_POT) samples explored (a subset of 0..1023)
SpeedSamples == {0, 1023}


\* ---------------------------------------------------- program constants
Sketches == {"part_000", "ino"}

\* unsigned long is 32 bits wide on the AVR; a 32-bit value is kept as its
\* two 16-bit halves [hi, lo], value = hi * Half + lo
Half == 65536

U32(n) == [hi |-> (n \div Half) % Half, lo |-> n % Half]

\* a stall of the sketch of 2^32 - 300 ms, which brings the clock to 300 ms
\* before its wraparound
LongStall == [hi |-> Half - 1, lo |-> Half - 300]

\* time (ms) that passes between two readings of millis(): delay(10) makes
\* it at least 10
Deltas == {U32(10), U32(300), LongStall}

LED_COUNT == 108

REVERSE_FLOW == 1

PATTERN_BLOCK == 2

PATTERN_PERIOD == PATTERN_BLOCK * 2

\* the .ino hard-wires the block size 3 and the period 6
InoBlock == 3

InoPeriod == 6

SEG_A_START == 0

SEG_A_END == 32

\* mutant: Segment B starts one pixel late
SEG_B_START_late == SEG_A_END + 2

SEG_B_START == 33

SEG_B_END == 107

\* PHASES[] is indexed from 0 in the source: entry k of the table is PHASES[k+1]
PHASES ==
  << [s |-> 33,  e |-> 41],
     [s |-> 42,  e |-> 45],
     [s |-> 46,  e |-> 57],
     [s |-> 58,  e |-> 62],
     [s |-> 63,  e |-> 73],
     [s |-> 74,  e |-> 79],
     [s |-> 80,  e |-> 87],
     [s |-> 88,  e |-> 101],
     [s |-> 102, e |-> 107] >>

PHASE_COUNT == 10

\* sizeof(PHASES)/sizeof(PHASES[0]) in the .ino
InoPhaseCount == Len(PHASES)

BRIGHT_MIN == 10

BRIGHT_MAX == 255

CHASE_DELAY_MIN_MS == 20

CHASE_DELAY_MAX_MS == 300

COL_OFF == 0

\* the constants each sketch compiles with
BlockOf(sk) == IF sk = "ino" THEN InoBlock ELSE PATTERN_BLOCK

\* mutant: the .ino takes its modulus from a block of 2
PeriodOf_block2(sk) == PATTERN_PERIOD

PeriodOf(sk) == IF sk = "ino" THEN InoPeriod ELSE PATTERN_PERIOD

\* mutant: the all-off phase is not counted, as with sizeof(PHASES)
PhaseCountOf_sizeof(sk) == InoPhaseCount

PhaseCountOf(sk) == IF sk = "ino" THEN InoPhaseCount ELSE PHASE_COUNT

\* ------------------------------------------------------ C arithmetic
\* mutant: the quotient is rounded down instead of toward zero
CDiv_floor(a, n) == a \div n

\* C integer division and remainder truncate toward zero
CDiv(a, n) ==
  IF a >= 0 THEN a \div n ELSE -((-a) \div n)

CMod(a, n) ==
  IF a >= 0 THEN a % n ELSE -((-a) % n)

\* unsigned long addition x + y, modulo 2^32
AddU32(x, y) ==
  LET lo == x.lo + y.lo
  IN  [hi |-> (x.hi + y.hi + (lo \div Half)) % Half, lo |-> lo % Half]

\* unsigned long subtraction x - y, modulo 2^32
SubU32(x, y) ==
  LET borrow == IF x.lo < y.lo THEN 1 ELSE 0
  IN  [hi |-> (x.hi - y.hi - borrow) % Half, lo |-> (x.lo - y.lo) % Half]

\* unsigned comparison x >= d of a 32-bit value with a delay d < 2^16
GeU32(x, d) == x.hi > 0 \/ x.lo >= d

\* (uint8_t) cast
U8(x) == x % 256

\* Arduino map(): (x - in_min) * (out_max - out_min) / (in_max - in_min) + out_min
map(x, in_min, in_max, out_min, out_max) ==
  CDiv((x - in_min) * (out_max - out_min), in_max - in_min) + out_min

\* ------------------------------------------------------ color helpers
\* Adafruit_NeoPixel::Color(r, g, b) packs 0x00RRGGBB
Color(r, g, bl) == r * 65536 + g * 256 + bl

colWhite(x) == Color(x, x, x)

colBlue(x) == Color(x \div 7, x \div 7, x)

colOrange(x) == Color(x, x \div 3, 0)

\* mutant: the lower clamp is left out
Brightness_noMin(raw) ==
  LET b0 == raw \div 4
  IN  IF b0 > BRIGHT_MAX THEN BRIGHT_MAX ELSE b0

\* brightness: rawB / 4 clamped to BRIGHT_MIN..BRIGHT_MAX
Brightness(raw) ==
  LET b0 == raw \div 4
      b1 == IF b0 < BRIGHT_MIN THEN BRIGHT_MIN ELSE b0
  IN  IF b1 > BRIGHT_MAX THEN BRIGHT_MAX ELSE b1

PhaseDelay(raw) == map(raw, 0, 1023, 5000, 300)

\* mutant: the upper clamp is left out
ChaseDelay_noMax(pd) ==
  LET cd0 == pd \div 8
  IN  IF cd0 < CHASE_DELAY_MIN_MS THEN CHASE_DELAY_MIN_MS ELSE cd0

\* mutant: the division by 8 rounds to the nearest millisecond
ChaseDelay_rounded(pd) ==
  LET cd0 == (pd + 4) \div 8
      cd1 == IF cd0 < CHASE_DELAY_MIN_MS THEN CHASE_DELAY_MIN_MS ELSE cd0
  IN  IF cd1 > CHASE_DELAY_MAX_MS THEN CHASE_DELAY_MAX_MS ELSE cd1

\* cd = phaseDelayMs / 8 clamped to CHASE_DELAY_MIN_MS..CHASE_DELAY_MAX_MS
ChaseDelay(pd) ==
  LET cd0 == pd \div 8
      cd1 == IF cd0 < CHASE_DELAY_MIN_MS THEN CHASE_DELAY_MIN_MS ELSE cd0
  IN  IF cd1 > CHASE_DELAY_MAX_MS THEN CHASE_DELAY_MAX_MS ELSE cd1

\* mutant: the negative remainder is not normalised
PatternIdx_rawRemainder(rev, rel, step, period) ==
  IF rev = 1
    THEN CMod(rel - step, period)
    ELSE CMod(rel + step, period)

\* mutant: the direction flag is ignored
PatternIdx_flagIgnored(rev, rel, step, period) == CMod(rel + step, period)

\* position of relative offset rel inside the block pattern
PatternIdx(rev, rel, step, period) ==
  IF rev = 1
    THEN CMod(CMod(rel - step, period) + period, period)
    ELSE CMod(rel + step, period)

\* color of Segment A pixel i
SegAColor(sk, i, step, br) ==
  LET rel == i - SEG_A_START
      idx == PatternIdx(REVERSE_FLOW, rel, step, PeriodOf(sk))
  IN  IF idx < BlockOf(sk) THEN colWhite(U8(br)) ELSE colBlue(U8(br))

\* pixels.setPixelColor over a range of indices; the library ignores
\* indices outside the strip
SetPixels(px, lo, hi, col) ==
  [i \in DOMAIN px |-> IF lo <= i /\ i <= hi THEN col[i] ELSE px[i]]

AllOff == [i \in 0 .. LED_COUNT - 1 |-> COL_OFF]

\* ------------------------------------------------------------- state
VARIABLES
  sketch,        \* which of the two sketches is running
  orangeLed,     \* the index of the orange pixel the sketch is built with
  recording,     \* history: whether the history counters are kept
  pc,            \* position in setup()/loop()
  millis,        \* the millisecond clock, modulo 2^32
  rawB, rawS,    \* loop() locals: the two samples
  b,             \* loop() local: brightness
  now,           \* loop() local: the reading of millis()
  chaseDelayMs, phaseDelayMs,
  chaseStep, phaseIndex, lastChase, lastPhase,
  buf,           \* the pixel buffer of the NeoPixel object
  strip,         \* what the LEDs show (the last flushed buffer)
  iter,          \* history: iterations of loop() started
  nChase, nPhase,\* history: advances of each animator since startup
  advanced,      \* history: animators advanced in the current iteration
  flushes,       \* history: pixels.show() calls made by loop()
  written,       \* history: the index ranges the setPixelColor loops of
                 \* the current iteration ran over
  phaseRead,     \* history: index PHASES[] was read with in the current
                 \* iteration, -1 if it was not read
  tChase, tPhase \* history: the time really elapsed since each animator's
                 \* last advance, not reduced modulo 2^32

vars == << sketch, orangeLed, recording, pc, millis, rawB, rawS, b, now,
           chaseDelayMs, phaseDelayMs,
           chaseStep, phaseIndex, lastChase, lastPhase, buf, strip,
           iter, nChase, nPhase, advanced, flushes, written, phaseRead,
           tChase, tPhase >>

build == << sketch, orangeLed, recording >>

timers == << chaseStep, phaseIndex, lastChase, lastPhase >>

locals == << rawB, rawS, b, now >>

delays == << chaseDelayMs, phaseDelayMs >>

counters == << iter, nChase, nPhase, advanced, flushes >>

history == << counters, written, phaseRead, tChase, tPhase >>

\* a history counter counts only while the history is recorded
Count(n) == IF recording THEN n + 1 ELSE n

\* elapsed time kept without reduction: the high half is not wrapped
WideAdd(x, y) ==
  LET lo == x.lo + y.lo
  IN  [hi |-> x.hi + y.hi + (lo \div Half), lo |-> lo % Half]

\* the state at power-up, for a sketch built with orange pixel led
Boot(led, rec) ==
  /\ sketch \in Sketches
  /\ orangeLed = led
  /\ recording = rec
  /\ pc = "setup"
  /\ millis = U32(0)
  /\ rawB = 0 /\ rawS = 0 /\ b = 0 /\ now = U32(0)
  /\ chaseDelayMs = 100
  /\ phaseDelayMs = 1200
  /\ chaseStep = 0
  /\ phaseIndex = 0
  /\ lastChase = U32(0)
  /\ lastPhase = U32(0)
  /\ buf = AllOff
  /\ strip = AllOff
  /\ iter = 0 /\ nChase = 0 /\ nPhase = 0 /\ advanced = {} /\ flushes = 0
  /\ written = {}
  /\ phaseRead = -1
  /\ tChase = U32(0)
  /\ tPhase = U32(0)

Init == Boot(74, TRUE)

\* setup(): begin, clear, show
Setup ==
  /\ pc = "setup"
  /\ buf' = AllOff
  /\ strip' = AllOff
  /\ pc' = "sample"
  /\ UNCHANGED << build, millis, locals, delays, timers, history >>

\* int rawB = analogRead(BRIGHT_POT); int rawS = analogRead(SPEED_POT);
\* with the samples sb and ss
Sample(sb, ss) ==
  /\ pc = "sample"
  /\ rawB' = sb
  /\ rawS' = ss
  /\ iter' = Count(iter)
  /\ advanced' = {}
  /\ written' = {}
  /\ phaseRead' = -1
  /\ pc' = "map"
  /\ UNCHANGED << build, millis, b, now, delays, timers, buf, strip,
                  nChase, nPhase, flushes, tChase, tPhase >>

ReadInputs ==
  /\ recording => iter < MaxIter
  /\ \E sb \in BrightSamples, ss \in SpeedSamples : Sample(sb, ss)

\* int b = rawB / 4, clamped; phaseDelayMs = map(...);
\* chaseDelayMs = phaseDelayMs / 8, clamped
MapInputs ==
  /\ pc = "map"
  /\ b' = Brightness(rawB)
  /\ phaseDelayMs' = PhaseDelay(rawS)
  /\ chaseDelayMs' = ChaseDelay(PhaseDelay(rawS))
  /\ pc' = "millis"
  /\ UNCHANGED << build, millis, rawB, rawS, now, timers, buf, strip,
                  history >>

\* unsigned long now = millis();
ReadMillis ==
  /\ pc = "millis"
  /\ now' = millis
  /\ pc' = "chase"
  /\ UNCHANGED << build, millis, rawB, rawS, b, delays, timers, buf, strip,
                  history >>

\* mutant: the reading is compared with a deadline lastChase + chaseDelayMs
ChaseDue_deadline ==
  LET dl == AddU32(lastChase, U32(chaseDelayMs))
  IN  now.hi > dl.hi \/ (now.hi = dl.hi /\ now.lo >= dl.lo)

\* now - lastChase >= chaseDelayMs
ChaseDue == GeU32(SubU32(now, lastChase), chaseDelayMs)

\* now - lastPhase >= phaseDelayMs
PhaseDue == GeU32(SubU32(now, lastPhase), phaseDelayMs)

\* the chase check of loop(), taken when due holds
ChaseStep(due) ==
  /\ pc = "chase"
  /\ IF due
       THEN /\ lastChase' = now
            /\ chaseStep' = CMod(chaseStep + 1, PeriodOf(sketch))
            /\ nChase' = Count(nChase)
            /\ advanced' = advanced \cup {"chase"}
            /\ tChase' = U32(0)
       ELSE UNCHANGED << lastChase, chaseStep, nChase, advanced, tChase >>
  /\ pc' = "phase"

\* mutant: strict comparison, an advance due exactly now is missed
AdvanceChase_strict ==
  /\ ChaseStep(ChaseDue /\ SubU32(now, lastChase) # U32(chaseDelayMs))
  /\ UNCHANGED << build, millis, locals, delays, phaseIndex, lastPhase,
                  buf, strip, iter, nPhase, flushes, written, phaseRead,
                  tPhase >>

\* mutant: one timestamp serves both animators
AdvanceChase_sharedTimer ==
  /\ ChaseStep(ChaseDue)
  /\ lastPhase' = IF ChaseDue THEN now ELSE lastPhase
  /\ UNCHANGED << build, millis, locals, delays, phaseIndex,
                  buf, strip, iter, nPhase, flushes, written, phaseRead,
                  tPhase >>

\* if (now - lastChase >= chaseDelayMs) { lastChase = now; chaseStep = ... }
AdvanceChase ==
  /\ ChaseStep(ChaseDue)
  /\ UNCHANGED << build, millis, locals, delays, phaseIndex, lastPhase,
                  buf, strip, iter, nPhase, flushes, written, phaseRead,
                  tPhase >>

\* the phase check of loop(), taken when due holds
PhaseStep(due) ==
  /\ pc = "phase"
  /\ IF due
       THEN /\ lastPhase' = now
            /\ phaseIndex' = CMod(phaseIndex + 1, PhaseCountOf(sketch))
            /\ nPhase' = Count(nPhase)
            /\ advanced' = advanced \cup {"phase"}
            /\ tPhase' = U32(0)
       ELSE UNCHANGED << lastPhase, phaseIndex, nPhase, advanced, tPhase >>
  /\ pc' = "render"
  /\ UNCHANGED << build, millis, locals, delays, chaseStep, lastChase,
                  buf, strip, iter, nChase, flushes, written, phaseRead,
                  tChase >>

\* mutant: the phase check is the else-branch of the chase check
AdvancePhase_elseIf == PhaseStep(PhaseDue /\ "chase" \notin advanced)

\* if (now - lastPhase >= phaseDelayMs) { lastPhase = now; phaseIndex = ... }
AdvancePhase == PhaseStep(PhaseDue)

\* mutant: the position of the pattern is taken from the clock reading
RenderSegA_clock(sk, px, step, br) ==
  SetPixels(px, SEG_A_START, SEG_A_END,
            [i \in SEG_A_START .. SEG_A_END |->
               SegAColor(sk, i, (now.lo \div 10) % PeriodOf(sk), br)])

\* for (i = SEG_A_START; i <= SEG_A_END; i++) setPixelColor(i, col)
RenderSegA(sk, px, step, br) ==
  SetPixels(px, SEG_A_START, SEG_A_END,
            [i \in SEG_A_START .. SEG_A_END |-> SegAColor(sk, i, step, br)])

\* mutant: Segment B is not cleared before the active phase is lit
ClearSegB_skipped(px) == px

\* for (i = SEG_B_START; i <= SEG_B_END; i++) setPixelColor(i, COL_OFF)
ClearSegB(px) ==
  SetPixels(px, SEG_B_START, SEG_B_END,
            [i \in SEG_B_START .. SEG_B_END |-> COL_OFF])

\* mutant: "Phase06" taken as index 6
PhaseColor_index6(i, ph, br) ==
  IF ph = 6 /\ i = orangeLed THEN colOrange(U8(br)) ELSE colWhite(U8(br))

\* color of pixel i of the active phase
PhaseColor(i, ph, br) ==
  IF ph = 5 /\ i = orangeLed THEN colOrange(U8(br)) ELSE colWhite(U8(br))

\* mutant: the table is read whatever phaseIndex is
ReadsTable_unguarded(sk, ph) == TRUE

\* part_000 reads PHASES[phaseIndex] only if phaseIndex < 9; the .ino
\* reads PHASES[phaseIndex] unconditionally
ReadsTable(sk, ph) == IF sk = "ino" THEN TRUE ELSE ph < 9

\* what a read past the end of the table may give: whatever two bytes
\* follow it in memory, here an empty and an overlong range
PastTheTable == {[s |-> 0, e |-> -1], [s |-> 100, e |-> 120]}

\* the outcomes of reading PHASES[k]
TableRead(k) ==
  IF k + 1 \in DOMAIN PHASES THEN {PHASES[k + 1]} ELSE PastTheTable

\* for (i = ph.s; i <= ph.e; i++) setPixelColor(i, col), r being the
\* entry read from the table
RenderPhase(sk, px, ph, br, r) ==
  IF ReadsTable(sk, ph)
    THEN SetPixels(px, r.s, r.e,
                   [i \in r.s .. r.e |-> PhaseColor(i, ph, br)])
    ELSE px

\* the index ranges the three loops of the rendering pass run over
Targets(sk, ph, r) ==
  {[s |-> SEG_A_START, e |-> SEG_A_END], [s |-> SEG_B_START, e |-> SEG_B_END]}
    \cup (IF ReadsTable(sk, ph) THEN {r} ELSE {})

\* the rendering pass of loop() with Segment A drawn from step
RenderFrom(step) ==
  /\ pc = "render"
  /\ \E r \in TableRead(phaseIndex) :
       /\ buf' = RenderPhase(sketch,
                             ClearSegB(RenderSegA(sketch, buf, step, b)),
                             phaseIndex, b, r)
       /\ written' = Targets(sketch, phaseIndex, r)
  /\ phaseRead' = IF ReadsTable(sketch, phaseIndex) THEN phaseIndex ELSE -1
  /\ pc' = "show"
  /\ UNCHANGED << build, millis, locals, delays, timers, strip,
                  counters, tChase, tPhase >>

\* mutant: the frame is rendered from the chase step as it was before this
\* iteration's advance check
Render_beforeAdvance ==
  RenderFrom(IF "chase" \in advanced
               THEN (chaseStep - 1) % PeriodOf(sketch)
               ELSE chaseStep)

\* the rendering pass of loop(): Segment A, then Segment B cleared, then
\* the active phase
Render == RenderFrom(chaseStep)

\* pixels.show()
Show ==
  /\ pc = "show"
  /\ strip' = buf
  /\ flushes' = Count(flushes)
  /\ pc' = "delay"
  /\ UNCHANGED << build, millis, locals, delays, timers, buf,
                  iter, nChase, nPhase, advanced, written, phaseRead,
                  tChase, tPhase >>

\* loop() returns and is called again d milliseconds later
Wait(d) ==
  /\ pc = "delay"
  /\ millis' = AddU32(millis, d)
  /\ tChase' = IF recording THEN WideAdd(tChase, d) ELSE tChase
  /\ tPhase' = IF recording THEN WideAdd(tPhase, d) ELSE tPhase
  /\ pc' = "sample"
  /\ UNCHANGED << build, locals, delays, timers, buf, strip,
                  counters, written, phaseRead >>

\* delay(10), and whatever else holds the sketch up until loop() runs again
Delay ==
  \E d \in Deltas :
    /\ d = LongStall => iter <= MaxStallIter
    /\ Wait(d)

Next ==
  \/ Setup
  \/ ReadInputs
  \/ MapInputs
  \/ ReadMillis
  \/ AdvanceChase
  \/ AdvancePhase
  \/ Render
  \/ Show
  \/ Delay

Spec == Init /\ [][Next]_vars

\* the largest sample analogRead() returns (10-bit converter)
ADC_MAX == 1023

\* the two reads with one knob swept over its whole range while the other
\* rests on one of its sampled positions
ReadSweep ==
  /\ pc = "sample"
  /\ \E k \in 0 .. ADC_MAX :
       \/ \E ss \in SpeedSamples : Sample(k, ss)
       \/ \E sb \in BrightSamples : Sample(sb, k)

\* setup() and the first iteration of loop(), up to its flush
NextSweep ==
  \/ Setup
  \/ ReadSweep
  \/ MapInputs
  \/ ReadMillis
  \/ AdvanceChase
  \/ AdvancePhase
  \/ Render
  \/ Show

\* the first iteration for every sample of each knob
SpecSweep == Init /\ [][NextSweep]_vars

\* the orange pixel the sketches name (74, inside the sixth sub-range
\* 74..79) and one outside that sub-range
OrangeLeds == {74, 80}

\* power-up of a sketch built with either orange pixel
InitCfg == \E led \in OrangeLeds : Boot(led, TRUE)

\* setup() and the first iteration for either build
SpecCfg == InitCfg /\ [][NextSweep]_vars

\* the stall that ends a cycle of the clock: from 5300 ms to the wrap
LiveStall == [hi |-> Half - 1, lo |-> Half - 5300]

\* the times after which loop() is called again in the unbounded run, by
\* the clock reading t: iterations 150 or 300 ms apart, then two that are
\* 2500 ms apart, then the stall to the end of the clock's 2^32 ms cycle
LiveGaps(t) ==
  IF t = U32(0) THEN {U32(150), U32(300)}
  ELSE IF t = U32(150) THEN {U32(150)}
  ELSE IF t = U32(300) \/ t = U32(2800) THEN {U32(2500)}
  ELSE {LiveStall}

\* loop() returns and is called again, the clock having moved on
DelayLive == \E d \in LiveGaps(millis) : Wait(d)

NextLive ==
  \/ Setup
  \/ ReadInputs
  \/ MapInputs
  \/ ReadMillis
  \/ AdvanceChase
  \/ AdvancePhase
  \/ Render
  \/ Show
  \/ DelayLive

\* power-up for the unbounded run: no history counters are kept
InitLive == Boot(74, FALSE)

\* loop() is invoked for ever and the clock moves on between iterations
SpecLive == InitLive /\ [][NextLive]_vars /\ WF_vars(NextLive)

\* ------------------------------------------------------------ claims
\* the animation constants the two sketches are written for
Block == IF sketch = "ino" THEN 3 ELSE 2

Period == 2 * Block

Phases == IF sketch = "ino" THEN 9 ELSE 10

\* C1: in every iteration chaseStep changes iff now - lastChase >= chaseDelayMs,
\* chaseDelayMs being mapped from this iteration's speed sample; it then
\* becomes (chaseStep + 1) mod period with lastChase = now, and nothing else
\* in loop() touches chaseStep or lastChase (at most one step per iteration)
C1_ChaseAdvanceIffDue ==
  [][ /\ pc = "chase" =>
           /\ chaseDelayMs = ChaseDelay(PhaseDelay(rawS))
           /\ IF ChaseDue
                THEN /\ chaseStep' = (chaseStep + 1) % Period
                     /\ chaseStep' # chaseStep
                     /\ lastChase' = now
                ELSE UNCHANGED << chaseStep, lastChase >>
      /\ pc # "chase" => UNCHANGED << chaseStep, lastChase >> ]_vars

\* the chase has advanced in this iteration and wrapped back to step 0
C1_Witness ==
  pc = "phase" /\ "chase" \in advanced /\ nChase = Period /\ chaseStep = 0

LitB(px) == {i \in 33 .. 107 : px[i] # 0}

\* the pixels of phase k: the k-th sub-range of the table, none for k = 9
PhasePixels(k) == IF k \in 0 .. 8 THEN PHASES[k + 1].s .. PHASES[k + 1].e ELSE {}

\* C4: at every flush the lit pixels of Segment B are exactly the sub-range
\* of phaseIndex (none when phaseIndex = 9), and no pixel of any other
\* phase is lit in the flushed frame
C4_OnePhaseLit ==
  pc = "delay" =>
    /\ phaseIndex \in 0 .. 9
    /\ LitB(strip) = PhasePixels(phaseIndex)
    /\ \A k \in 0 .. 9 :
         k # phaseIndex => \A i \in PhasePixels(k) : strip[i] = 0

\* part_000 has flushed the all-off frame after the nine lit phases
C4_Witness ==
  pc = "delay" /\ phaseIndex = 9 /\ nPhase = 9 /\ LitB(strip) = {}

\* C5: a frame rendered with phaseIndex = 5 has pixel 74 orange and 75..79
\* white at the current brightness; in any other phase pixel 74 is not
\* orange; a frame rendered with phaseIndex = 9 has Segment B all off
C5_OrangePixel ==
  pc = "show" =>
    /\ phaseIndex = 5 =>
         /\ buf[74] = colOrange(Brightness(rawB))
         /\ \A i \in 75 .. 79 : buf[i] = colWhite(Brightness(rawB))
    /\ phaseIndex # 5 => buf[74] \notin {colOrange(x) : x \in 1 .. 255}
    /\ phaseIndex = 9 => \A i \in 33 .. 107 : buf[i] = 0

\* the frame of phase 5 has been rendered at brightness 128
C5_Witness ==
  pc = "show" /\ phaseIndex = 5 /\ b = 128 /\ buf[74] = colOrange(128)
    /\ buf[75] = colWhite(128)

\* the direction rule, in mathematical (floored) modulo
DirectionIdx(rev, rel, step) ==
  IF rev = 1 THEN (rel - step) % Period ELSE (rel + step) % Period

\* C6: Segment A pixel rel is white when idx < blockSize and blue-tinted
\* otherwise, idx given by the direction rule and lying in [0, period); the
\* pattern has period 2 x blockSize in rel and in chaseStep, and at
\* chaseStep = 0 offsets 0..blockSize-1 are white, blockSize..period-1 blue
C6_SegAPattern ==
  pc = "show" =>
    /\ \A rel \in 0 .. 32 :
         /\ buf[rel] = IF DirectionIdx(1, rel, chaseStep) < Block
                         THEN colWhite(b) ELSE colBlue(b)
         /\ rel + Period <= 32 => buf[rel + Period] = buf[rel]
    /\ \A rev \in {0, 1}, rel \in 0 .. 32 :
         /\ PatternIdx(rev, rel, chaseStep, Period) \in 0 .. Period - 1
         /\ PatternIdx(rev, rel, chaseStep, Period)
              = DirectionIdx(rev, rel, chaseStep)
         /\ PatternIdx(rev, rel, chaseStep + Period, Period)
              = PatternIdx(rev, rel, chaseStep, Period)
         /\ PatternIdx(rev, rel + Period, chaseStep, Period)
              = PatternIdx(rev, rel, chaseStep, Period)
    /\ chaseStep = 0 =>
         /\ \A rel \in 0 .. Block - 1 : buf[rel] = colWhite(b)
         /\ \A rel \in Block .. Period - 1 : buf[rel] = colBlue(b)

\* Segment A has been rendered at the last step of the pattern, where
\* rel - chaseStep is negative for the first pixels
C6_Witness ==
  pc = "show" /\ chaseStep = Period - 1 /\ buf[0] = colWhite(b)
    /\ buf[Block - 1] = colBlue(b)

\* the frame the spec prescribes for a chase step, a phase and a brightness
ExpectedFrame(step, ph, br) ==
  [i \in 0 .. 107 |->
     IF i <= 32
       THEN IF (i - step) % Period < Block THEN colWhite(br) ELSE colBlue(br)
       ELSE IF i \in PhasePixels(ph)
              THEN IF ph = 5 /\ i = 74 THEN colOrange(br) ELSE colWhite(br)
              ELSE 0]

\* the position that follows each position of loop()
NextPc ==
  [ setup |-> "sample", sample |-> "map", map |-> "millis",
    millis |-> "chase", chase |-> "phase", phase |-> "render",
    render |-> "show", show |-> "delay", delay |-> "sample" ]

\* C7: an iteration samples, maps, checks and advances both animators,
\* writes the pixels and flushes, in that order; there is one flush per
\* iteration, after the pixel writes, and the flushed frame is the rendering
\* of the post-advance chaseStep and phaseIndex at this iteration's brightness
C7_IterationOrder ==
  /\ [](pc = "delay" =>
          /\ strip = ExpectedFrame(chaseStep, phaseIndex, Brightness(rawB))
          /\ flushes = iter)
  /\ [](pc \in {"map", "millis", "chase", "phase", "render", "show"} =>
          flushes = iter - 1)
  /\ [][ /\ pc' = NextPc[pc]
         /\ (rawB' # rawB \/ rawS' # rawS) => pc = "sample"
         /\ (b' # b \/ delays' # delays) => pc = "map"
         /\ now' # now => pc = "millis"
         /\ timers' # timers => pc \in {"chase", "phase"}
         /\ buf' # buf => pc = "render"
         /\ (strip' # strip \/ flushes' # flushes) => pc = "show" ]_vars

\* the third frame has been flushed, at the minimum brightness, in an
\* iteration in which both animators advanced
C7_Witness ==
  pc = "delay" /\ advanced = {"chase", "phase"} /\ iter = 3
    /\ rawB = 0 /\ flushes = 3 /\ strip[0] # 0 /\ nChase = 2

\* C8: once the advance checks of an iteration are done no advance is still
\* due at that iteration's clock reading: each animator whose elapsed time
\* had reached its delay has advanced in this very iteration
C8_NoDueAdvanceLeft ==
  /\ pc \in {"phase", "render", "show", "delay"} => ~ChaseDue
  /\ pc \in {"render", "show", "delay"} => ~PhaseDue

\* the second iteration came after a long stall and both animators made
\* their first advance in it
C8_Witness ==
  pc = "render" /\ iter = 2 /\ now = LongStall
    /\ advanced = {"chase", "phase"} /\ nChase = 1 /\ nPhase = 1

\* C9: the chase check leaves phaseIndex and lastPhase alone, the phase
\* check leaves chaseStep and lastChase alone, and each check advances its
\* animator exactly when its own elapsed time has reached its own delay
C9_Decoupled ==
  [][ /\ pc = "chase" =>
           /\ UNCHANGED << phaseIndex, lastPhase >>
           /\ (chaseStep' # chaseStep) = ChaseDue
      /\ pc = "phase" =>
           /\ UNCHANGED << chaseStep, lastChase >>
           /\ (phaseIndex' # phaseIndex) = PhaseDue ]_vars

\* only the phase sequencer advanced in this iteration
C9_Witness ==
  pc = "render" /\ advanced = {"phase"} /\ nChase > 0

\* the scenario of C10: the second iteration reads the clock at 300 ms, the
\* first one having read it at 0, with samples 512 and 0
C10_Scenario ==
  pc = "show" /\ iter = 2 /\ now = U32(300) /\ rawB = 512 /\ rawS = 0

\* C10 as amended: brightness 128, phaseDelay 5000, chaseDelay 300 (625
\* clamped), chaseStep advanced exactly once to 1, and Segment A pixel 0
\* renders blue-tinted, both sketches being built with REVERSE_FLOW = 1
C10_EndToEnd ==
  C10_Scenario =>
    /\ b = 128
    /\ phaseDelayMs = 5000
    /\ phaseDelayMs \div 8 = 625
    /\ chaseDelayMs = 300
    /\ nChase = 1 /\ chaseStep = 1 /\ lastChase = now
    /\ buf[0] = colBlue(128)

\* the scenario has run and pixel 0 is blue-tinted
C10_Witness ==
  C10_Scenario /\ chaseStep = 1 /\ buf[0] = 1184384

\* C10 as stated: pixel 0 renders white
C10_Original ==
  C10_Scenario =>
    /\ b = 128
    /\ phaseDelayMs = 5000
    /\ chaseDelayMs = 300
    /\ nChase = 1 /\ chaseStep = 1
    /\ buf[0] = colWhite(128)

\* x limited to lo..hi
Clamp(x, lo, hi) == IF x < lo THEN lo ELSE IF x > hi THEN hi ELSE x

\* the colors a frame drawn at brightness br may hold
Palette(br) ==
  {0, br * 65536 + br * 256 + br,
      (br \div 7) * 65536 + (br \div 7) * 256 + br,
      br * 65536 + (br \div 3) * 256}

\* C11: for every brightness sample 0..1023 the brightness the colors are
\* computed from is clamp(sample / 4, 10, 255) with integer division, lies in
\* 10..255 and is not below the brightness of any smaller sample; every pixel
\* of the rendered frame is off or a color of that clamped brightness
C11_BrightnessClamped ==
  pc \in {"millis", "chase", "phase", "render", "show", "delay"} =>
    /\ b \in 10 .. 255
    /\ b = Clamp(rawB \div 4, 10, 255)
    /\ \A s2 \in 0 .. 1023 : s2 <= rawB => Brightness(s2) <= b
    /\ pc \in {"show", "delay"} =>
         \A i \in 0 .. 107 : buf[i] \in Palette(b)

\* a sample below 40 is rendered at the minimum brightness
C11_Witness ==
  pc = "show" /\ rawB = 20 /\ b = 10 /\ buf[0] = 10 * 65793

\* C12: for every speed sample 0..1023 the phase delay is
\* 5000 - floor(sample * 4700 / 1023) (the negative product truncated toward
\* zero before 5000 is added), lies in 300..5000, is 5000 for sample 0 and
\* 300 for sample 1023, and is not above the delay of any smaller sample
C12_PhaseDelayMap ==
  pc \in {"millis", "chase", "phase", "render", "show", "delay"} =>
    /\ phaseDelayMs = 5000 - ((rawS * 4700) \div 1023)
    /\ phaseDelayMs \in 300 .. 5000
    /\ rawS = 0 => phaseDelayMs = 5000
    /\ rawS = 1023 => phaseDelayMs = 300
    /\ \A s2 \in 0 .. 1023 : s2 <= rawS => PhaseDelay(s2) >= phaseDelayMs

\* a sample whose product is not a multiple of 1023: -3523.85 becomes -3523
C12_Witness ==
  pc = "chase" /\ rawS = 767 /\ phaseDelayMs = 1477

\* C13: whenever a delay is compared, chaseDelayMs is
\* clamp(phaseDelayMs / 8, 20, 300) with integer division and so lies in
\* 20..300; a phase delay of 1200 gives 150, 5000 gives 300 (clamped) and
\* 300 gives 37
C13_ChaseDelayClamped ==
  /\ pc \in {"chase", "phase"} =>
       /\ chaseDelayMs = Clamp(phaseDelayMs \div 8, 20, 300)
       /\ chaseDelayMs \in 20 .. 300
       /\ phaseDelayMs = 5000 => chaseDelayMs = 300
       /\ phaseDelayMs = 300 => chaseDelayMs = 37
  /\ ChaseDelay(1200) = 150
  /\ ChaseDelay(5000) = 300
  /\ ChaseDelay(300) = 37

\* the fastest knob position: the chase delay is 300 / 8, not clamped
C13_Witness ==
  pc = "chase" /\ rawS = 1023 /\ phaseDelayMs = 300 /\ chaseDelayMs = 37

\* the pixel indices of a set of index ranges
Covered(w) == UNION {rg.s .. rg.e : rg \in w}

\* C14: in every iteration the rendering pass calls setPixelColor for every
\* pixel 0..107 before the flush and for no index outside 0..107, whatever
\* chaseStep and phaseIndex are; Segment A (0..32) and Segment B (33..107)
\* are disjoint and together are the strip
C14_AllPixelsWritten ==
  IF pc = "show"
    THEN /\ Covered(written) = 0 .. 107
         /\ DOMAIN buf = 0 .. 107
         /\ [s |-> 0, e |-> 32] \in written
         /\ [s |-> 33, e |-> 107] \in written
    ELSE pc \in {"map", "millis", "chase", "phase", "render"} =>
           written = {}

\* the last phase, whose sub-range ends at the last pixel, is drawn
C14_Witness ==
  pc = "show" /\ phaseIndex = 8 /\ Covered(written) = 0 .. 107
    /\ [s |-> 102, e |-> 107] \in written /\ buf[107] # 0
    /\ chaseStep > 0

\* C15: the frame is a function of chaseStep, phaseIndex and the brightness:
\* an iteration in which neither animator advances and whose brightness is
\* that of the frame on the strip (whose white Segment A pixels show it)
\* flushes a frame identical to that frame
C15_RenderPure ==
  [][ (/\ pc = "show"
       /\ advanced = {}
       /\ \E i \in 0 .. 32 : strip[i] = b * 65793) => strip' = strip ]_vars

\* a later iteration, at a later clock reading, redraws the frame of the
\* sixth phase unchanged
C15_Witness ==
  /\ pc = "show" /\ advanced = {} /\ iter >= 3 /\ phaseIndex = 5
  /\ strip[74] = b * 65536 + (b \div 3) * 256
  /\ now # U32(0) /\ buf = strip

\* C16: a sketch whose orange pixel lies outside the sub-range of its phase
\* stops in setup(): loop() never writes a pixel and never flushes a frame
C16_FailFast ==
  orangeLed \notin PHASES[6].s .. PHASES[6].e =>
    /\ pc = "setup"
    /\ written = {}
    /\ flushes = 0

\* C17: the direction flag only reverses the direction of travel. Built
\* with REVERSE_FLOW = 1, after a chase advance every Segment A pixel rel >= 1
\* shows what pixel rel - 1 showed in the frame before (same brightness);
\* by the index rule, for the current step s, with the flag 0 pixel rel after
\* the advance has the pattern index pixel rel + 1 had before, with the flag
\* 1 that of pixel rel - 1, and the reversed index at s is the non-reversed
\* index at (period - s) mod period
C17_DirectionOnly ==
  [][ pc = "show" =>
        /\ ("chase" \in advanced /\ \E i \in 0 .. 32 : strip[i] = b * 65793)
             => \A rel \in 1 .. 32 : strip'[rel] = strip[rel - 1]
        /\ \A rel \in 1 .. 31 :
             LET s  == chaseStep
                 s1 == (chaseStep + 1) % Period
             IN  /\ PatternIdx(0, rel, s1, Period)
                      = PatternIdx(0, rel + 1, s, Period)
                 /\ PatternIdx(1, rel, s1, Period)
                      = PatternIdx(1, rel - 1, s, Period)
                 /\ PatternIdx(1, rel, s, Period)
                      = PatternIdx(0, rel, (Period - s) % Period, Period)
    ]_vars

\* the chase has wrapped to step 0 and the frame is the previous one moved
\* one pixel toward higher indices
C17_Witness ==
  /\ pc = "show" /\ "chase" \in advanced /\ chaseStep = 0 /\ nChase = Period
  /\ \E i \in 0 .. 32 : strip[i] = b * 65793
  /\ buf[Block] = strip[Block - 1] /\ buf[Block] # strip[Block + 1]

\* an unreduced elapsed time t is at least the delay d
WideGe(t, d) == t.hi > 0 \/ t.lo >= d

\* C19: at both checks the elapsed time computed modulo 2^32 equals the time
\* really elapsed since the animator's last advance while that is below
\* 2^32 ms, also when the clock has wrapped in between, and the animator
\* advances exactly when the time really elapsed has reached its delay
C19_WrapSafe ==
  [][ /\ (pc = "chase" /\ tChase.hi < Half) =>
           /\ SubU32(now, lastChase) = tChase
           /\ "chase" \in advanced' <=> WideGe(tChase, chaseDelayMs)
      /\ (pc = "phase" /\ tPhase.hi < Half) =>
           /\ SubU32(now, lastPhase) = tPhase
           /\ "phase" \in advanced' <=> WideGe(tPhase, phaseDelayMs) ]_vars

\* the clock wrapped to 0 since the advances made 300 ms before the wrap:
\* the chase (delay at most 300) has advanced, the phase (delay 5000) not
C19_Witness ==
  /\ pc = "render" /\ now = U32(0) /\ lastPhase = LongStall
  /\ tPhase = U32(300) /\ phaseDelayMs = 5000 /\ advanced = {"chase"}

\* C20: the table has exactly 9 entries and every read PHASES[phaseIndex]
\* in loop() is made with an index in 0..8: an iteration whose phaseIndex
\* is 9 (all off) does not read the table, any other reads it at phaseIndex
C20_TableIndex ==
  /\ Len(PHASES) = 9
  /\ phaseRead \in -1 .. 8
  /\ pc \in {"show", "delay"} =>
       phaseRead = IF phaseIndex = 9 THEN -1 ELSE phaseIndex

\* the all-off state, reached after nine phase advances, is rendered
\* without a read of the table
C20_Witness ==
  /\ sketch = "part_000" /\ pc = "show" /\ phaseIndex = 9 /\ nPhase = 9
  /\ phaseRead = -1 /\ \A i \in 33 .. 107 : buf[i] = 0

\* state j of the sketch's sequencer is active (j below 10), or chase step
\* j - 10 is the current one; a state or step the sketch does not have
\* counts as active
Active(j) ==
  IF j < 10 THEN j < Phases => phaseIndex = j
            ELSE j - 10 < Period => chaseStep = j - 10

\* the same for a sequencer of ten states
ActiveOfTen(j) ==
  IF j < 10 THEN phaseIndex = j
            ELSE j - 10 < Period => chaseStep = j - 10

TypeOK ==
  /\ sketch \in Sketches
  /\ chaseStep \in 0 .. PeriodOf(sketch) - 1
  /\ phaseIndex \in 0 .. PhaseCountOf(sketch) - 1
  /\ \A t \in {millis, now, lastChase, lastPhase} :
       t.hi \in 0 .. Half - 1 /\ t.lo \in 0 .. Half - 1
  /\ phaseDelayMs \in 300 .. 5000
  /\ chaseDelayMs \in CHASE_DELAY_MIN_MS .. CHASE_DELAY_MAX_MS
====
